---- MODULE Spec2Model ----
(***************************************************************************)
(* gitsync: mirrors open Gerrit changes to GitHub branches and pull        *)
(* requests and relays GitHub commit statuses back as Gerrit comments.     *)
(* The model follows the latest revision of the program (Sync.run,         *)
(* Sync.poll and their helpers, src/unnamed/part_001 lines 343-744); the   *)
(* close case of the earlier revision has a specification of its own.      *)
(*                                                                         *)
(* Strings the code inspects (branch names, messages) are sequences of     *)
(* one-character strings, so that HasPrefix, SplitN, Sprintf and Contains  *)
(* are computed, not assumed.  A Go pointer is a sequence of length 0      *)
(* (nil) or 1.                                                             *)
(***************************************************************************)
EXTENDS Integers, Sequences, FiniteSets, TLC

VARIABLES
  gerrit,     \* Gerrit: change id -> [Open, Project, CurrentRevision, Messages]
  reviews,    \* Gerrit: the SetReview requests accepted so far
  branches,   \* GitHub: repo -> branch name -> sha ("" when absent)
  pulls,      \* GitHub: repo -> sequence of [Ref, State], Number = index
  statuses,   \* GitHub: repo -> sha -> commit statuses, the newest first
  arrived,    \* GitHub: number of statuses recorded since the program started
  work,       \* local disk: project -> [dir, br] under the work directory
  cron,       \* the -cron flag of run
  pc,         \* where run is: "start", "dispatch", "returned", "failed",
              \* "panicked";
              \* "join" while the map is filled one insertion at a time
  cycle,      \* number of polls started
  cis,        \* poll: what gerritChanges returned
  prs,        \* poll: the pull requests fetched, in the order fetched
  changes,    \* poll: the map changes (key -> Change)
  todo,       \* poll: keys of changes the range loop has not visited yet
  log         \* the external calls issued by the current poll, in order

vars == <<gerrit, reviews, branches, pulls, statuses, arrived, work, cron, pc,
          cycle, cis, prs, changes, todo, log>>

---------------------------------------------------------------------------
(* Bounds and the finite universe the inputs are drawn from *)

MaxCycles == 2
MaxStatuses == 2

GitHubOwner == <<"o">>

I1 == <<"I", "1">>
I2 == <<"I", "2">>
ChangeIds == {I1, I2}
IdOrder == <<I1, I2>>
Human == <<"f", "I">>
Refs == ChangeIds \cup {Human}
RefOrder == <<I1, I2, Human>>

Bar == <<"b">>
Foo == <<"f">>
RepoSet == {Bar, Foo}
Old == "r1"
New == "r2"
Shas == {Old, New}
NoSha == ""

Nil == <<>>
Ptr(x) == <<x>>
Deref(p) == p[1]

---------------------------------------------------------------------------
(* Text *)

HasPrefix(s, prefix) ==
  /\ Len(s) >= Len(prefix)
  /\ SubSeq(s, 1, Len(prefix)) = prefix

Contains(s, substr) ==
  \E i \in 0..(Len(s) - Len(substr)) : SubSeq(s, i + 1, i + Len(substr)) = substr

\* strings.SplitN(name, "/", 2)[1]: the text after the first "/"
RECURSIVE AfterSlash(_)
AfterSlash(name) ==
  IF name = <<>> THEN <<>>
  ELSE IF Head(name) = "/" THEN Tail(name)
  ELSE AfterSlash(Tail(name))

FullName(owner, repo) == owner \o <<"/">> \o repo

\* a test for an "I" anywhere in the name
isGerritChange_AnyI(id) == Contains(id, <<"I">>)

isGerritChange(id) == HasPrefix(id, <<"I">>)

TravisContext == "continuous-integration/travis-ci/pr"

\* fmt.Sprintf("%v: %v", stat.Description, stat.Target)
StatusMessage(stat) == stat.Description \o <<":", " ">> \o stat.Target

---------------------------------------------------------------------------
(* The two external systems as the program reads them *)

\* gerrit.QueryChanges("is:open", CURRENT_REVISION, MESSAGES)
ChangeInfo(id) ==
  [ChangeID |-> id,
   Project |-> gerrit[id].Project,
   CurrentRevision |-> gerrit[id].CurrentRevision,
   Messages |-> gerrit[id].Messages]

gerritChanges ==
  LET IsOpen(id) == gerrit[id].Open
      open == SelectSeq(IdOrder, IsOpen)
  IN  [i \in 1..Len(open) |-> ChangeInfo(open[i])]

\* GET users/<owner>/repos: the names of the owner's repositories
githubRepos == <<Bar, Foo>>

\* GET repos/<owner>/<repo>/pulls: the open pull requests of one repository
PullRequest(repo, n) ==
  [Number |-> n,
   Head |-> [Ref |-> pulls[repo][n].Ref,
             SHA |-> branches[repo][pulls[repo][n].Ref],
             Repo |-> FullName(GitHubOwner, repo)]]

pullRequests(repo) ==
  LET all == [n \in 1..Len(pulls[repo]) |-> PullRequest(repo, n)]
      IsOpen(pr) == pulls[repo][pr.Number].State = "open"
  IN  SelectSeq(all, IsOpen)

RECURSIVE AllPullRequests(_)
AllPullRequests(repos) ==
  IF repos = <<>> THEN <<>>
  ELSE pullRequests(Head(repos)) \o AllPullRequests(Tail(repos))

---------------------------------------------------------------------------
(* poll, first half: the join of changes and pull requests by identifier *)

Put(m, k, v) == [x \in (DOMAIN m) \cup {k} |-> IF x = k THEN v ELSE m[x]]

EmptyMap == [x \in {} |-> Nil]

\* changes[ci.ChangeID] = &Change{ChangeInfo: ci}
AddChangeInfo(m, ci) ==
  Put(m, ci.ChangeID, [ChangeInfo |-> Ptr(ci), PullRequest |-> Nil])

\* for _, ci := range cis { changes[ci.ChangeID] = &Change{ChangeInfo: ci} }
RECURSIVE AddChangeInfos(_, _)
AddChangeInfos(m, list) ==
  IF list = <<>> THEN m
  ELSE AddChangeInfos(AddChangeInfo(m, Head(list)), Tail(list))

\* the loop body without its test of the head
AddPullRequest_Unfiltered(m, pr) ==
  LET c == IF pr.Head.Ref \in DOMAIN m THEN m[pr.Head.Ref]
           ELSE [ChangeInfo |-> Nil, PullRequest |-> Nil]
  IN  Put(m, pr.Head.Ref, [c EXCEPT !.PullRequest = Ptr(pr)])

\* the body of: for _, pr := range prs { ... }
AddPullRequest(m, pr) ==
  IF ~isGerritChange(pr.Head.Ref) THEN m
  ELSE LET c == IF pr.Head.Ref \in DOMAIN m THEN m[pr.Head.Ref]
                ELSE [ChangeInfo |-> Nil, PullRequest |-> Nil]
       IN  Put(m, pr.Head.Ref, [c EXCEPT !.PullRequest = Ptr(pr)])

RECURSIVE AddPullRequests(_, _)
AddPullRequests(m, list) ==
  IF list = <<>> THEN m
  ELSE AddPullRequests(AddPullRequest(m, Head(list)), Tail(list))

Join(changeInfos, pullReqs) ==
  AddPullRequests(AddChangeInfos(EmptyMap, changeInfos), pullReqs)

---------------------------------------------------------------------------
(* The external calls a poll issues.  An entry of log names the record    *)
(* (key) on whose behalf the call was made and what it was aimed at.      *)

Op(k, call, repo, ref, num) ==
  [key |-> k, call |-> call, repo |-> repo, ref |-> ref, num |-> num]

\* What can go wrong in one dispatch: F is the set of calls that fail when
\* issued; nfail is the SetReview call that fails (0: none).

---------------------------------------------------------------------------
(* Branch synchronizer *)

\* Sync.clone(dir, project) on the working copy W of the project
clone(W, project, F, k) ==
  LET E(call) == Op(k, call, project, <<>>, 0) IN
  IF "stat" \in F THEN [err |-> TRUE, W |-> W, calls |-> <<>>]
  ELSE IF W.dir # "absent" THEN
    IF W.dir # "dir" THEN [err |-> TRUE, W |-> W, calls |-> <<>>]
    ELSE IF "checkout master" \in F
      THEN [err |-> FALSE, W |-> W, calls |-> <<E("checkout master")>>]
      ELSE [err |-> "pull" \in F, W |-> W,
            calls |-> <<E("checkout master"), E("pull")>>]
  ELSE IF "mkdir" \in F THEN [err |-> TRUE, W |-> W, calls |-> <<>>]
  ELSE IF "clone" \in F
    THEN [err |-> TRUE, W |-> [dir |-> "absent", br |-> {}],
          calls |-> <<E("clone")>>]
    ELSE [err |-> "checkout master" \in F, W |-> [dir |-> "dir", br |-> {}],
          calls |-> <<E("clone"), E("checkout master")>>]

\* syncBranch returning the error of a failed checkout at once
syncBranch_CheckoutFatal(W, c, F, k) ==
  LET E(call) == Op(k, call, c.Project, c.ChangeID, 0)
      cl == clone(W, c.Project, F, k)
      coFails == "checkout" \in F \/ c.ChangeID \notin cl.W.br
  IN
  IF cl.err THEN [err |-> TRUE, W |-> cl.W, calls |-> cl.calls, pushed |-> FALSE]
  ELSE IF coFails
    THEN [err |-> TRUE, W |-> cl.W, calls |-> cl.calls \o <<E("checkout")>>,
          pushed |-> FALSE]
  ELSE IF "fetch" \in F \/ "reset" \in F
    THEN [err |-> TRUE, W |-> cl.W,
          calls |-> cl.calls \o <<E("checkout"), E("fetch")>>, pushed |-> FALSE]
  ELSE [err |-> "push -f" \in F, W |-> cl.W,
        calls |-> cl.calls \o <<E("checkout"), E("fetch"), E("reset"), E("push -f")>>,
        pushed |-> "push -f" \notin F]

\* Sync.syncBranch(dir, c): pushed tells whether the force push reached the
\* mirror, which then holds the fetched commit at branch c.ChangeID.
syncBranch(W, c, F, k) ==
  LET E(call) == Op(k, call, c.Project, c.ChangeID, 0)
      cl == clone(W, c.Project, F, k)
      coFails == "checkout" \in F \/ c.ChangeID \notin cl.W.br
      cbFails == "checkout -b" \in F \/ c.ChangeID \in cl.W.br
      co == IF coFails THEN <<E("checkout"), E("checkout -b")>>
            ELSE <<E("checkout")>>
      W1 == [cl.W EXCEPT !.br = @ \cup {c.ChangeID}]
  IN
  IF cl.err THEN [err |-> TRUE, W |-> cl.W, calls |-> cl.calls, pushed |-> FALSE]
  ELSE IF coFails /\ cbFails
    THEN [err |-> TRUE, W |-> cl.W, calls |-> cl.calls \o co, pushed |-> FALSE]
  ELSE IF "fetch" \in F
    THEN [err |-> TRUE, W |-> W1, calls |-> cl.calls \o co \o <<E("fetch")>>,
          pushed |-> FALSE]
  ELSE IF "reset" \in F
    THEN [err |-> TRUE, W |-> W1,
          calls |-> cl.calls \o co \o <<E("fetch"), E("reset")>>,
          pushed |-> FALSE]
  ELSE [err |-> "push -f" \in F, W |-> W1,
        calls |-> cl.calls \o co \o <<E("fetch"), E("reset"), E("push -f")>>,
        pushed |-> "push -f" \notin F]

\* deleteBranch returning the error of the local deletion
deleteBranch_LocalFatal(W, B, repo, id, F, k) ==
  LET E(call) == Op(k, call, repo, id, 0)
      cl == clone(W, repo, F, k)
      pdFails == "push --delete" \in F \/ B[repo][id] = NoSha
      bdFails == "branch -D" \in F \/ id \notin cl.W.br
  IN
  IF cl.err THEN [err |-> TRUE, W |-> cl.W, calls |-> cl.calls, deleted |-> FALSE]
  ELSE IF pdFails
    THEN [err |-> TRUE, W |-> cl.W, calls |-> cl.calls \o <<E("push --delete")>>,
          deleted |-> FALSE]
  ELSE [err |-> bdFails,
        W |-> IF bdFails THEN cl.W ELSE [cl.W EXCEPT !.br = @ \ {id}],
        calls |-> cl.calls \o <<E("push --delete"), E("branch -D")>>,
        deleted |-> TRUE]

\* Sync.deleteBranch(dir, repo, id): deleted tells whether the mirror branch
\* was removed.  git refuses to delete a branch that does not exist, on the
\* mirror (push --delete) as in the clone (branch -D).
deleteBranch(W, B, repo, id, F, k) ==
  LET E(call) == Op(k, call, repo, id, 0)
      cl == clone(W, repo, F, k)
      pdFails == "push --delete" \in F \/ B[repo][id] = NoSha
      bdFails == "branch -D" \in F \/ id \notin cl.W.br
  IN
  IF cl.err THEN [err |-> TRUE, W |-> cl.W, calls |-> cl.calls, deleted |-> FALSE]
  ELSE IF pdFails
    THEN [err |-> TRUE, W |-> cl.W, calls |-> cl.calls \o <<E("push --delete")>>,
          deleted |-> FALSE]
  ELSE [err |-> FALSE,
        W |-> IF bdFails THEN cl.W ELSE [cl.W EXCEPT !.br = @ \ {id}],
        calls |-> cl.calls \o <<E("push --delete"), E("branch -D")>>,
        deleted |-> TRUE]

---------------------------------------------------------------------------
(* Pull-request driver *)

\* POST repos/<owner>/<project>/pulls.  GitHub answers 422 when the head
\* branch does not exist or an open pull request for that head exists.
createPullRequestFails(B, P, ci, F) ==
  \/ "createPullRequest" \in F
  \/ B[ci.Project][ci.ChangeID] = NoSha
  \/ \E n \in 1..Len(P[ci.Project]) :
       P[ci.Project][n] = [Ref |-> ci.ChangeID, State |-> "open"]

createPullRequest(P, ci) ==
  [P EXCEPT ![ci.Project] = Append(@, [Ref |-> ci.ChangeID, State |-> "open"])]

\* a request that closes every pull request of the repository
closePullRequest_AllOfRepo(P, pr) ==
  [P EXCEPT ![AfterSlash(pr.Head.Repo)] =
     [n \in 1..Len(@) |-> [@[n] EXCEPT !.State = "closed"]]]

\* POST repos/<pr.Head.Repo.Name>/pulls/<pr.Number> {"state": "closed"}
closePullRequest(P, pr) ==
  [P EXCEPT ![AfterSlash(pr.Head.Repo)][pr.Number].State = "closed"]

---------------------------------------------------------------------------
(* Feedback relay *)

CodeReviewMinusOne == <<"Code-Review", "-1">>

\* a labels map that votes on every status relayed
Labels_Always(stat) == {CodeReviewMinusOne}

\* The labels map of the ReviewInput for a status
Labels(stat) == IF stat.State = "failure" THEN {CodeReviewMinusOne} ELSE {}

\* the loop body without its test of the context
Relayed_AnyContext(stat) ==
  ~(stat.State # "success" /\ stat.State # "failure")

\* The two tests at the top of the loop body: the status is relayed
Relayed(stat) ==
  /\ stat.Context = TravisContext
  /\ ~(stat.State # "success" /\ stat.State # "failure")

\* for _, m := range ci.Messages { if strings.Contains(m.Message, msg) ... }
Found(messages, msg) ==
  \E i \in 1..Len(messages) : Contains(messages[i], msg)

\* The loop over the statuses.  posts are the SetReview requests Gerrit
\* accepted; the call number nfail fails and ends the loop with an error.
RECURSIVE RelayLoop(_, _, _, _)
RelayLoop(stats, ci, nfail, posts) ==
  IF stats = <<>> THEN [err |-> FALSE, posts |-> posts]
  ELSE LET stat == Head(stats)
           msg == StatusMessage(stat)
       IN  IF ~Relayed(stat) \/ Found(ci.Messages, msg)
             THEN RelayLoop(Tail(stats), ci, nfail, posts)
           ELSE IF Len(posts) + 1 = nfail
             THEN [err |-> TRUE, posts |-> posts]
           ELSE RelayLoop(Tail(stats), ci, nfail,
                  Append(posts, [ChangeID |-> ci.ChangeID,
                                 Revision |-> ci.CurrentRevision,
                                 Message |-> msg,
                                 Labels |-> Labels(stat),
                                 SHA |-> "",
                                 State |-> stat.State]))

\* Sync.syncComments(c)
syncComments(c, F, nfail, k) ==
  LET pr == Deref(c.PullRequest)
      ci == Deref(c.ChangeInfo)
      repo == AfterSlash(pr.Head.Repo)
      E == Op(k, "statuses", repo, pr.Head.Ref, pr.Number)
      loop == RelayLoop(statuses[repo][pr.Head.SHA], ci, nfail, <<>>)
      posts == [i \in 1..Len(loop.posts) |->
                  [loop.posts[i] EXCEPT !.SHA = pr.Head.SHA]]
      attempts == Len(posts) + (IF loop.err THEN 1 ELSE 0)
  IN
  IF "statuses" \in F THEN [err |-> TRUE, posts |-> <<>>, calls |-> <<E>>]
  ELSE [err |-> loop.err, posts |-> posts,
        calls |-> <<E>> \o [i \in 1..attempts |->
                              Op(k, "SetReview", repo, ci.ChangeID, pr.Number)]]

\* What Gerrit stores for an accepted review: the message under a header
\* that names the patch set and the vote.
GerritMessage(post) ==
  (IF post.Labels = {} THEN <<"P", ":">> ELSE <<"P", ":", "-", "1">>)
    \o <<"\n">> \o post.Message

RECURSIVE SetReviews(_, _)
SetReviews(G, posts) ==
  IF posts = <<>> THEN G
  ELSE SetReviews(
         [G EXCEPT ![Head(posts).ChangeID].Messages =
                     Append(@, GerritMessage(Head(posts)))],
         Tail(posts))

---------------------------------------------------------------------------
(* The failures one dispatch may meet: any of the failures the code        *)
(* tolerates, and at most one of those that end the poll.                  *)

FailSets(tolerated, fatal) ==
  {N \cup M : N \in SUBSET tolerated, M \in {{}} \cup {{x} : x \in fatal}}

SyncFatal == {"stat", "mkdir", "clone", "pull", "checkout -b", "fetch",
              "reset", "push -f"}
SyncFails == FailSets({"checkout master", "checkout"}, SyncFatal)
CreateFails ==
  FailSets({"checkout master", "checkout"}, SyncFatal \cup {"createPullRequest"})
CloseFails ==
  FailSets({"checkout master", "branch -D"},
           {"closePullRequest", "stat", "mkdir", "clone", "pull", "push --delete"})
RelayFails == {{}, {"statuses"}}

---------------------------------------------------------------------------
(* run and poll *)

\* a loop that polls again after a poll returned an error
MayPoll_Retries ==
  \/ pc = "start"
  \/ pc \in {"returned", "failed"} /\ ~cron /\ cycle < MaxCycles

\* run is about to call poll: on entry, and with -cron unset at every later
\* tick of the interval
MayPoll ==
  \/ pc = "start"
  \/ pc = "returned" /\ ~cron /\ cycle < MaxCycles

\* poll up to the range loop: fetch both sides and join them
PollFetch ==
  /\ MayPoll
  /\ cycle' = cycle + 1
  /\ cis' = gerritChanges
  /\ prs' = AllPullRequests(githubRepos)
  /\ changes' = Join(cis', prs')
  /\ todo' = DOMAIN changes'
  /\ log' = <<>>
  /\ pc' = "dispatch"
  /\ UNCHANGED <<gerrit, reviews, branches, pulls, statuses, arrived, work, cron>>

\* gerritChanges, githubRepos or pullRequests returns an error
PollFetchFails ==
  /\ MayPoll
  /\ cycle' = cycle + 1
  /\ cis' = <<>>
  /\ prs' = <<>>
  /\ changes' = EmptyMap
  /\ todo' = {}
  /\ log' = <<>>
  /\ pc' = "failed"
  /\ UNCHANGED <<gerrit, reviews, branches, pulls, statuses, arrived, work, cron>>

\* The conditions of the switch in the range loop
CaseCreate(c) == c.PullRequest = Nil /\ c.ChangeInfo # Nil
CaseBoth(c) == c.PullRequest # Nil /\ c.ChangeInfo # Nil
CaseClose(c) == c.PullRequest # Nil /\ c.ChangeInfo = Nil

\* a comparison that never finds the two in sync: the branch name for the sha
InSync_ComparesRef(c) ==
  Deref(c.PullRequest).Head.Ref = <<Deref(c.ChangeInfo).CurrentRevision>>

\* a comparison that finds every pair in sync: the change with itself
InSync_ComparesSelf(c) ==
  Deref(c.ChangeInfo).CurrentRevision = Deref(c.ChangeInfo).CurrentRevision

\* no comparison: both sides present is enough
InSync_BothPresent(c) == CaseBoth(c)

\* c.PullRequest.Head.SHA == c.ChangeInfo.CurrentRevision
InSync(c) ==
  Deref(c.PullRequest).Head.SHA = Deref(c.ChangeInfo).CurrentRevision

\* an iteration that drops its error and lets the range loop go on
Step_GoesOn(k, err, calls) ==
  /\ log' = log \o calls
  /\ pc' = "dispatch"
  /\ todo' = todo \ {k}
  /\ UNCHANGED <<statuses, arrived, cron, cycle, cis, prs, changes>>

\* One iteration of the range loop returns err (poll returns it) or goes on
Step(k, err, calls) ==
  /\ log' = log \o calls
  /\ pc' = IF err THEN "failed" ELSE "dispatch"
  /\ todo' = IF err THEN todo ELSE todo \ {k}
  /\ UNCHANGED <<statuses, arrived, cron, cycle, cis, prs, changes>>

\* the case without the return after a failed syncBranch: the pull request is
\* requested whatever syncBranch returned
DispatchCreate_CreatesAnyway(k, F) ==
  /\ pc = "dispatch"
  /\ k \in todo
  /\ CaseCreate(changes[k])
  /\ LET ci == Deref(changes[k].ChangeInfo)
         sb == syncBranch(work[ci.Project], ci, F, k)
         B == IF sb.pushed
              THEN [branches EXCEPT ![ci.Project][ci.ChangeID] = ci.CurrentRevision]
              ELSE branches
         crFails == createPullRequestFails(B, pulls, ci, F)
     IN  /\ work' = [work EXCEPT ![ci.Project] = sb.W]
         /\ branches' = B
         /\ pulls' = IF ~crFails THEN createPullRequest(pulls, ci) ELSE pulls
         /\ Step(k, sb.err \/ crFails,
                 <<Op(k, "syncBranch", ci.Project, ci.ChangeID, 0)>> \o sb.calls
                 \o <<Op(k, "createPullRequest", ci.Project, ci.ChangeID, 0)>>)
         /\ UNCHANGED <<gerrit, reviews>>

\* case c.PullRequest == nil && c.ChangeInfo != nil
DispatchCreate(k, F) ==
  /\ pc = "dispatch"
  /\ k \in todo
  /\ CaseCreate(changes[k])
  /\ LET ci == Deref(changes[k].ChangeInfo)
         sb == syncBranch(work[ci.Project], ci, F, k)
         B == IF sb.pushed
              THEN [branches EXCEPT ![ci.Project][ci.ChangeID] = ci.CurrentRevision]
              ELSE branches
         crFails == createPullRequestFails(B, pulls, ci, F)
     IN  /\ work' = [work EXCEPT ![ci.Project] = sb.W]
         /\ branches' = B
         /\ pulls' = IF ~sb.err /\ ~crFails THEN createPullRequest(pulls, ci)
                     ELSE pulls
         /\ Step(k, sb.err \/ crFails,
                 <<Op(k, "syncBranch", ci.Project, ci.ChangeID, 0)>> \o sb.calls
                 \o (IF sb.err THEN <<>>
                     ELSE <<Op(k, "createPullRequest", ci.Project, ci.ChangeID, 0)>>))
         /\ UNCHANGED <<gerrit, reviews>>

\* case both present, c.PullRequest.Head.SHA == c.ChangeInfo.CurrentRevision
DispatchSynced(k, F, nfail) ==
  /\ pc = "dispatch"
  /\ k \in todo
  /\ CaseBoth(changes[k])
  /\ InSync(changes[k])
  /\ LET pr == Deref(changes[k].PullRequest)
         sc == syncComments(changes[k], F, nfail, k)
     IN  /\ gerrit' = SetReviews(gerrit, sc.posts)
         /\ reviews' = reviews \o sc.posts
         /\ Step(k, sc.err,
                 <<Op(k, "syncComments", AfterSlash(pr.Head.Repo), pr.Head.Ref,
                      pr.Number)>> \o sc.calls)
         /\ UNCHANGED <<branches, pulls, work>>

\* the case with the feedback relay run after the branch has been synced
DispatchUpdate_ThenRelays(k, F) ==
  /\ pc = "dispatch"
  /\ k \in todo
  /\ CaseBoth(changes[k])
  /\ ~InSync(changes[k])
  /\ LET ci == Deref(changes[k].ChangeInfo)
         sb == syncBranch(work[ci.Project], ci, F, k)
         sc == syncComments(changes[k], F, 0, k)
     IN  /\ work' = [work EXCEPT ![ci.Project] = sb.W]
         /\ branches' = IF sb.pushed
              THEN [branches EXCEPT ![ci.Project][ci.ChangeID] = ci.CurrentRevision]
              ELSE branches
         /\ gerrit' = IF sb.err THEN gerrit ELSE SetReviews(gerrit, sc.posts)
         /\ reviews' = IF sb.err THEN reviews ELSE reviews \o sc.posts
         /\ Step(k, sb.err,
                 <<Op(k, "syncBranch", ci.Project, ci.ChangeID, 0)>> \o sb.calls
                 \o (IF sb.err THEN <<>>
                     ELSE <<Op(k, "syncComments", ci.Project, ci.ChangeID, 0)>>
                          \o sc.calls))
         /\ UNCHANGED pulls

\* case both present, the hashes differ
DispatchUpdate(k, F) ==
  /\ pc = "dispatch"
  /\ k \in todo
  /\ CaseBoth(changes[k])
  /\ ~InSync(changes[k])
  /\ LET ci == Deref(changes[k].ChangeInfo)
         sb == syncBranch(work[ci.Project], ci, F, k)
     IN  /\ work' = [work EXCEPT ![ci.Project] = sb.W]
         /\ branches' = IF sb.pushed
              THEN [branches EXCEPT ![ci.Project][ci.ChangeID] = ci.CurrentRevision]
              ELSE branches
         /\ Step(k, sb.err,
                 <<Op(k, "syncBranch", ci.Project, ci.ChangeID, 0)>> \o sb.calls)
         /\ UNCHANGED <<gerrit, reviews, pulls>>

\* the case as an earlier revision had it: the statuses of the pull request
\* are read before it is closed
DispatchClose_RelayFirst(k, F) ==
  /\ pc = "dispatch"
  /\ k \in todo
  /\ CaseClose(changes[k])
  /\ LET pr == Deref(changes[k].PullRequest)
         clFails == "closePullRequest" \in F
         repo == AfterSlash(pr.Head.Repo)
         db == deleteBranch(work[repo], branches, repo, pr.Head.Ref, F, k)
         E(call) == Op(k, call, repo, pr.Head.Ref, pr.Number)
     IN  /\ pulls' = IF clFails THEN pulls ELSE closePullRequest(pulls, pr)
         /\ work' = IF clFails THEN work ELSE [work EXCEPT ![repo] = db.W]
         /\ branches' = IF ~clFails /\ db.deleted
                        THEN [branches EXCEPT ![repo][pr.Head.Ref] = NoSha]
                        ELSE branches
         /\ Step(k, clFails \/ db.err,
                 <<E("syncComments"), E("statuses"), E("closePullRequest")>>
                 \o (IF clFails THEN <<>> ELSE <<E("deleteBranch")>> \o db.calls))
         /\ UNCHANGED <<gerrit, reviews>>

\* the case without the return after a failed close: the branch is deleted
\* whatever closePullRequest returned
DispatchClose_DeletesAnyway(k, F) ==
  /\ pc = "dispatch"
  /\ k \in todo
  /\ CaseClose(changes[k])
  /\ LET pr == Deref(changes[k].PullRequest)
         clFails == "closePullRequest" \in F
         repo == AfterSlash(pr.Head.Repo)
         db == deleteBranch(work[repo], branches, repo, pr.Head.Ref, F, k)
         E(call) == Op(k, call, repo, pr.Head.Ref, pr.Number)
     IN  /\ pulls' = IF clFails THEN pulls ELSE closePullRequest(pulls, pr)
         /\ work' = [work EXCEPT ![repo] = db.W]
         /\ branches' = IF db.deleted
                        THEN [branches EXCEPT ![repo][pr.Head.Ref] = NoSha]
                        ELSE branches
         /\ Step(k, clFails \/ db.err,
                 <<E("closePullRequest"), E("deleteBranch")>> \o db.calls)
         /\ UNCHANGED <<gerrit, reviews>>

\* case c.PullRequest != nil && c.ChangeInfo == nil
DispatchClose(k, F) ==
  /\ pc = "dispatch"
  /\ k \in todo
  /\ CaseClose(changes[k])
  /\ LET pr == Deref(changes[k].PullRequest)
         clFails == "closePullRequest" \in F
         repo == AfterSlash(pr.Head.Repo)
         db == deleteBranch(work[repo], branches, repo, pr.Head.Ref, F, k)
         E(call) == Op(k, call, repo, pr.Head.Ref, pr.Number)
     IN  /\ pulls' = IF clFails THEN pulls ELSE closePullRequest(pulls, pr)
         /\ work' = IF clFails THEN work ELSE [work EXCEPT ![repo] = db.W]
         /\ branches' = IF ~clFails /\ db.deleted
                        THEN [branches EXCEPT ![repo][pr.Head.Ref] = NoSha]
                        ELSE branches
         /\ Step(k, clFails \/ db.err,
                 <<E("closePullRequest")>>
                 \o (IF clFails THEN <<>> ELSE <<E("deleteBranch")>> \o db.calls))
         /\ UNCHANGED <<gerrit, reviews>>

\* the range loop is over: poll returns nil
PollReturn ==
  /\ pc = "dispatch"
  /\ todo = {}
  /\ pc' = "returned"
  /\ UNCHANGED <<gerrit, reviews, branches, pulls, statuses, arrived, work, cron,
                 cycle, cis, prs, changes, todo, log>>

---------------------------------------------------------------------------
(* Initial states *)

Failure == [Context |-> TravisContext, State |-> "failure",
            Description |-> <<"t">>, Target |-> <<"u">>]

MainStatusLists == {<<>>, <<Failure>>}

ClosedChange ==
  [Open |-> FALSE, Project |-> Foo, CurrentRevision |-> New, Messages |-> <<>>]

OpenChange(p) ==
  [Open |-> TRUE, Project |-> p, CurrentRevision |-> New, Messages |-> <<>>]

\* The mirror holding, for each repository and change id, no branch or a
\* branch at sha with an open pull request, and in Foo somebody's pull
\* request from a branch that is no change id
Mirrors ==
  {m \in [RepoSet -> [Refs -> Shas \cup {NoSha}]] :
     /\ m[Bar][Human] = NoSha
     /\ m[Foo][Human] = Old}

InitPulls(m) ==
  [repo \in RepoSet |->
     LET Has(ref) == m[repo][ref] # NoSha
         have == SelectSeq(RefOrder, Has)
     IN  [i \in 1..Len(have) |-> [Ref |-> have[i], State |-> "open"]]]

InitControl ==
  /\ reviews = <<>>
  /\ arrived = 0
  /\ work = [repo \in RepoSet |-> [dir |-> "absent", br |-> {}]]
  /\ pc = "start"
  /\ cycle = 0
  /\ cis = <<>>
  /\ prs = <<>>
  /\ changes = EmptyMap
  /\ todo = {}
  /\ log = <<>>

Init ==
  /\ gerrit \in [ChangeIds -> {ClosedChange} \cup {OpenChange(p) : p \in RepoSet}]
  /\ branches \in Mirrors
  /\ pulls = InitPulls(branches)
  /\ \E list \in MainStatusLists :
       statuses = [repo \in RepoSet |-> [sha \in Shas \cup {NoSha} |-> list]]
  /\ cron \in BOOLEAN
  /\ InitControl

Next ==
  \/ PollFetch
  \/ PollFetchFails
  \/ \E k \in Refs, F \in CreateFails : DispatchCreate(k, F)
  \/ \E k \in Refs, F \in RelayFails, nfail \in 0..MaxStatuses :
       DispatchSynced(k, F, nfail)
  \/ \E k \in Refs, F \in SyncFails : DispatchUpdate(k, F)
  \/ \E k \in Refs, F \in CloseFails : DispatchClose(k, F)
  \/ PollReturn

Spec == Init /\ [][Next]_vars

---------------------------------------------------------------------------
(* The feedback relay on one change in sync with its pull request, over    *)
(* the lists of statuses a commit can carry and the comments a change can  *)
(* hold, while the continuous integration service records more statuses.   *)

Contexts == {TravisContext, "ci/other"}
States == {"success", "failure", "pending"}
Descriptions == {<<"t">>, <<"x", "t">>}
Targets == {<<"u">>}

AllStatuses ==
  [Context : Contexts, State : States, Description : Descriptions,
   Target : Targets]

StatusLists == UNION {[1..n -> AllStatuses] : n \in 0..MaxStatuses}

\* Comments a person or an earlier run left on the change
EarlierComments ==
  {<<>>,
   << <<"P", ":", "\n", "t", ":", " ", "u">> >>,
   << <<"s", "e", "e", " ", "x", "t", ":", " ", "u", "!">> >>}

InitRelay ==
  /\ \E comments \in EarlierComments :
       gerrit = [id \in ChangeIds |->
                   IF id = I1 THEN [OpenChange(Foo) EXCEPT !.Messages = comments]
                   ELSE ClosedChange]
  /\ branches = [repo \in RepoSet |-> [ref \in Refs |->
                   IF repo = Foo /\ ref = I1 THEN New ELSE NoSha]]
  /\ pulls = InitPulls(branches)
  /\ \E list \in StatusLists :
       statuses = [repo \in RepoSet |-> [sha \in Shas \cup {NoSha} |->
                     IF repo = Foo /\ sha = New THEN list ELSE <<>>]]
  /\ cron = FALSE
  /\ InitControl

\* The continuous integration service records a status on the head commit
StatusArrives(stat) ==
  /\ pc \in {"start", "returned"}
  /\ Len(statuses[Foo][New]) < MaxStatuses
  /\ statuses' = [statuses EXCEPT ![Foo][New] = <<stat>> \o @]
  /\ arrived' = arrived + 1
  /\ UNCHANGED <<gerrit, reviews, branches, pulls, work, cron, pc, cycle, cis,
                 prs, changes, todo, log>>

NextRelay ==
  \/ PollFetch
  \/ \E k \in Refs, F \in RelayFails, nfail \in 0..MaxStatuses :
       DispatchSynced(k, F, nfail)
  \/ PollReturn
  \/ \E stat \in AllStatuses : StatusArrives(stat)

SpecRelay == InitRelay /\ [][NextRelay]_vars

---------------------------------------------------------------------------
(* The program started again after it ended: by cron after a run with -cron, *)
(* by the operator after a run that ended with an error.  Every change has   *)
(* the repository of its project as its only mirror, failures happen in the  *)
(* first poll only, and nothing else touches Gerrit or GitHub.               *)

Home(id) == IF id = I1 THEN Foo ELSE Bar

HomeMirrors ==
  {m \in Mirrors :
     \A repo \in RepoSet, id \in ChangeIds : repo # Home(id) => m[repo][id] = NoSha}

\* The work directory: empty, or (with -dir) as an earlier run left it, each
\* project cloned and holding the branches of its changes
NoClones == [repo \in RepoSet |-> [dir |-> "absent", br |-> {}]]
LeftClones ==
  [repo \in RepoSet |-> [dir |-> "dir", br |-> {id \in ChangeIds : Home(id) = repo}]]

InitRetry ==
  /\ gerrit \in {g \in [ChangeIds -> {ClosedChange} \cup {OpenChange(p) : p \in RepoSet}] :
                   \A id \in ChangeIds : g[id].Project = Home(id) \/ ~g[id].Open}
  /\ branches \in HomeMirrors
  /\ pulls = InitPulls(branches)
  /\ statuses = [repo \in RepoSet |-> [sha \in Shas \cup {NoSha} |-> <<Failure>>]]
  /\ cron \in BOOLEAN
  /\ work \in {NoClones, LeftClones}
  /\ reviews = <<>>
  /\ arrived = 0
  /\ pc = "start"
  /\ cycle = 0
  /\ cis = <<>>
  /\ prs = <<>>
  /\ changes = EmptyMap
  /\ todo = {}
  /\ log = <<>>

\* main is run again.  With -dir the work directory is as the last run left
\* it; without, run has removed its temporary directory on return.
RunAgain(dirFlag) ==
  /\ pc = "failed" \/ (pc = "returned" /\ cron)
  /\ cycle < MaxCycles
  /\ pc' = "start"
  /\ work' = IF dirFlag THEN work ELSE NoClones
  /\ UNCHANGED <<gerrit, reviews, branches, pulls, statuses, arrived, cron, cycle,
                 cis, prs, changes, todo, log>>

\* The failures a dispatch may meet: those of S in the first poll, none later
FailsNow(S) == IF cycle = 1 THEN S ELSE {{}}

PollFetchFailsFirst == cycle = 0 /\ PollFetchFails

NextRetry ==
  \/ PollFetch
  \/ PollFetchFailsFirst
  \/ \E k \in Refs, F \in FailsNow(CreateFails) : DispatchCreate(k, F)
  \/ \E k \in Refs, F \in FailsNow(RelayFails),
        nfail \in (IF cycle = 1 THEN 0..MaxStatuses ELSE {0}) :
       DispatchSynced(k, F, nfail)
  \/ \E k \in Refs, F \in FailsNow(SyncFails) : DispatchUpdate(k, F)
  \/ \E k \in Refs, F \in FailsNow(CloseFails) : DispatchClose(k, F)
  \/ PollReturn
  \/ \E dirFlag \in BOOLEAN : RunAgain(dirFlag)

SpecRetry == InitRetry /\ [][NextRetry]_vars

---------------------------------------------------------------------------
(* The join filled by the two insertions of poll taken in any interleaving: *)
(* cis and prs hold what is still to be inserted, each in the order fetched. *)

InitJoin ==
  /\ gerrit \in [ChangeIds -> {ClosedChange} \cup {OpenChange(p) : p \in RepoSet}]
  /\ branches \in Mirrors
  /\ pulls = InitPulls(branches)
  /\ statuses = [repo \in RepoSet |-> [sha \in Shas \cup {NoSha} |-> <<>>]]
  /\ cron = FALSE
  /\ reviews = <<>>
  /\ arrived = 0
  /\ work = [repo \in RepoSet |-> [dir |-> "absent", br |-> {}]]
  /\ pc = "join"
  /\ cycle = 1
  /\ cis = gerritChanges
  /\ prs = AllPullRequests(githubRepos)
  /\ changes = EmptyMap
  /\ todo = {}
  /\ log = <<>>

\* the body of the loop over cis, for the next change
JoinChangeInfo ==
  /\ pc = "join"
  /\ cis # <<>>
  /\ changes' = AddChangeInfo(changes, Head(cis))
  /\ cis' = Tail(cis)
  /\ UNCHANGED <<gerrit, reviews, branches, pulls, statuses, arrived, work, cron,
                 pc, cycle, prs, todo, log>>

\* the body of the loop over prs, for the next pull request
JoinPullRequest ==
  /\ pc = "join"
  /\ prs # <<>>
  /\ changes' = AddPullRequest(changes, Head(prs))
  /\ prs' = Tail(prs)
  /\ UNCHANGED <<gerrit, reviews, branches, pulls, statuses, arrived, work, cron,
                 pc, cycle, cis, todo, log>>

NextJoin ==
  \/ JoinChangeInfo
  \/ JoinPullRequest

SpecJoin == InitJoin /\ [][NextJoin]_vars

---------------------------------------------------------------------------
(* The earlier revision of the program (src/unnamed/part_001 lines 1-341):   *)
(* one run, the pull requests of the one repository "upspin" (Foo here), a   *)
(* join in which a pull request replaces the record of its key, and a close  *)
(* case that calls syncComments first.                                       *)

\* c, ok := changes[gc.ID]; if !ok { c = &Change{} ... }; c.GerritChange = gc
AddGerritChange(m, gc) ==
  LET c == IF gc.ChangeID \in DOMAIN m THEN m[gc.ChangeID]
           ELSE [ChangeInfo |-> Nil, PullRequest |-> Nil]
  IN  Put(m, gc.ChangeID, [c EXCEPT !.ChangeInfo = Ptr(gc)])

RECURSIVE AddGerritChanges(_, _)
AddGerritChanges(m, list) ==
  IF list = <<>> THEN m
  ELSE AddGerritChanges(AddGerritChange(m, Head(list)), Tail(list))

\* changes[pr.Head.Ref] = &Change{PullRequest: pr}
SetPullRequest(m, pr) ==
  IF ~isGerritChange(pr.Head.Ref) THEN m
  ELSE Put(m, pr.Head.Ref, [ChangeInfo |-> Nil, PullRequest |-> Ptr(pr)])

RECURSIVE SetPullRequests(_, _)
SetPullRequests(m, list) ==
  IF list = <<>> THEN m
  ELSE SetPullRequests(SetPullRequest(m, Head(list)), Tail(list))

\* syncComments of that revision reads gc.ID to build a URL and returns nil;
\* with gc nil the read is a nil pointer dereference and the program panics
syncCommentsEarlier(c) ==
  IF c.ChangeInfo = Nil THEN "panic" ELSE "nil"

InitEarlier ==
  /\ gerrit \in [ChangeIds -> {ClosedChange, OpenChange(Foo)}]
  /\ branches \in {m \in Mirrors : \A id \in ChangeIds : m[Bar][id] = NoSha}
  /\ pulls = InitPulls(branches)
  /\ statuses = [repo \in RepoSet |-> [sha \in Shas \cup {NoSha} |-> <<>>]]
  /\ cron = TRUE
  /\ InitControl

\* run up to the range loop
FetchEarlier ==
  /\ pc = "start"
  /\ cycle' = cycle + 1
  /\ cis' = gerritChanges
  /\ prs' = pullRequests(Foo)
  /\ changes' = SetPullRequests(AddGerritChanges(EmptyMap, cis'), prs')
  /\ todo' = DOMAIN changes'
  /\ log' = <<>>
  /\ pc' = "dispatch"
  /\ UNCHANGED <<gerrit, reviews, branches, pulls, statuses, arrived, work, cron>>

\* case c.PullRequest != nil && c.GerritChange == nil, up to its first call
CloseEarlier(k) ==
  /\ pc = "dispatch"
  /\ k \in todo
  /\ CaseClose(changes[k])
  /\ LET pr == Deref(changes[k].PullRequest)
     IN  log' = Append(log, Op(k, "syncComments", AfterSlash(pr.Head.Repo),
                               pr.Head.Ref, pr.Number))
  /\ pc' = IF syncCommentsEarlier(changes[k]) = "panic" THEN "panicked"
           ELSE "dispatch"
  /\ UNCHANGED <<gerrit, reviews, branches, pulls, statuses, arrived, work, cron,
                 cycle, cis, prs, changes, todo>>

NextEarlier ==
  \/ FetchEarlier
  \/ PollFetchFails
  \/ \E k \in Refs, F \in CreateFails : DispatchCreate(k, F)
  \/ \E k \in Refs : CloseEarlier(k)
  \/ PollReturn

SpecEarlier == InitEarlier /\ [][NextEarlier]_vars

---------------------------------------------------------------------------
(* Vocabulary of the properties *)

\* A poll has returned nil
Completed == pc = "returned"

\* The records whose iteration of the range loop ended without error
Processed == (DOMAIN changes) \ todo

StartsWithI(ref) == Len(ref) >= 1 /\ ref[1] = "I"

CallNames(entries) == [i \in 1..Len(entries) |-> entries[i].call]

\* The calls of the kinds in S made on behalf of record k, in order
CallsFor(k, S) ==
  LET Mine(e) == e.key = k /\ e.call \in S IN CallNames(SelectSeq(log, Mine))

Operations ==
  {"syncBranch", "createPullRequest", "syncComments", "closePullRequest",
   "deleteBranch"}

Mutating ==
  {"syncBranch", "push -f", "createPullRequest", "closePullRequest",
   "deleteBranch", "push --delete"}

OpenPulls(repo, ref) ==
  {n \in 1..Len(pulls[repo]) : pulls[repo][n] = [Ref |-> ref, State |-> "open"]}

HasChange(c) == c.ChangeInfo # Nil
HasPull(c) == c.PullRequest # Nil
HashesAgree(c) ==
  Deref(c.PullRequest).Head.SHA = Deref(c.ChangeInfo).CurrentRevision

\* The classification of section 4.2 of the specification
Classify(hasChange, hasPull, agree) ==
  IF hasChange /\ ~hasPull THEN "CreateAndOpen"
  ELSE IF hasChange /\ hasPull THEN (IF agree THEN "NoOp" ELSE "UpdateAndRelay")
  ELSE IF hasPull THEN "CloseAndDelete"
  ELSE "Impossible"

ClassifyRecord(c) ==
  Classify(HasChange(c), HasPull(c), HasChange(c) /\ HasPull(c) /\ HashesAgree(c))

---------------------------------------------------------------------------
(* Properties of a poll *)

\* C1: after a poll that returns nil, every open change has exactly one open
\* pull request with head = change id in the repository of its project, and
\* that repository's branch of that name is at the change's current revision.
C1_EveryOpenChangeMirrored ==
  Completed =>
    \A id \in ChangeIds :
      gerrit[id].Open =>
        /\ Cardinality(OpenPulls(gerrit[id].Project, id)) = 1
        /\ branches[gerrit[id].Project][id] = gerrit[id].CurrentRevision

\* C2: after a poll that returns nil, every fetched pull request whose head
\* starts with "I" and names no open change is closed and its branch deleted.
C2_EveryOrphanRemoved ==
  Completed =>
    \A i \in 1..Len(prs) :
      LET ref == prs[i].Head.Ref
          repo == AfterSlash(prs[i].Head.Repo)
      IN  (StartsWithI(ref) /\ ~(ref \in ChangeIds /\ gerrit[ref].Open)) =>
            /\ pulls[repo][prs[i].Number].State = "closed"
            /\ branches[repo][ref] = NoSha

\* C3: the poll that follows a poll that returned nil, nothing else having
\* changed, pushes, creates, closes and deletes nothing, and every one of its
\* records classifies as NoOp.
C3_SecondPollIdle ==
  cycle >= 2 =>
    /\ \A i \in 1..Len(log) : log[i].call \notin Mutating
    /\ \A k \in DOMAIN changes : ClassifyRecord(changes[k]) = "NoOp"

\* C5: the keys of the working set are the ids of the changes fetched together
\* with the heads, starting with "I", of the pull requests fetched; no record
\* lacks both sides.
C5_JoinComplete ==
  /\ DOMAIN changes =
       {cis[i].ChangeID : i \in 1..Len(cis)}
       \cup {prs[i].Head.Ref : i \in {j \in 1..Len(prs) : StartsWithI(prs[j].Head.Ref)}}
  /\ \A k \in DOMAIN changes : HasChange(changes[k]) \/ HasPull(changes[k])

\* a poll joined a change without pull request, a pull request without change
\* and left a pull request out
C5_Witness ==
  /\ pc = "dispatch"
  /\ \E k \in DOMAIN changes : HasChange(changes[k]) /\ ~HasPull(changes[k])
  /\ \E k \in DOMAIN changes : ~HasChange(changes[k]) /\ HasPull(changes[k])
  /\ \E i \in 1..Len(prs) : ~StartsWithI(prs[i].Head.Ref)

\* C6: a pull request whose head does not start with "I" is the pull request
\* of no record, and no call of a poll is aimed at it or at its branch.
C6_OthersIgnored ==
  /\ \A k \in DOMAIN changes :
       /\ StartsWithI(k)
       /\ HasPull(changes[k]) => StartsWithI(Deref(changes[k].PullRequest).Head.Ref)
  /\ \A repo \in RepoSet : \A n \in 1..Len(pulls[repo]) :
       ~StartsWithI(pulls[repo][n].Ref) =>
         /\ pulls[repo][n].State = "open"
         /\ \A i \in 1..Len(log) :
              /\ ~(log[i].repo = repo /\ log[i].num = n)
              /\ ~(log[i].repo = repo /\ log[i].ref = pulls[repo][n].Ref)

\* a poll that deleted a branch of Foo and pushed another returned, somebody
\* else's pull request of Foo being among those fetched
C6_Witness ==
  /\ Completed
  /\ \E i \in 1..Len(prs) : ~StartsWithI(prs[i].Head.Ref)
  /\ \E i \in 1..Len(log) : log[i].call = "push --delete" /\ log[i].repo = Foo
  /\ \E i \in 1..Len(log) : log[i].call = "push -f" /\ log[i].repo = Foo

\* The operations of each action, as the range loop performs them
OperationsOf(action) ==
  CASE action = "CreateAndOpen" -> <<"syncBranch", "createPullRequest">>
    [] action = "NoOp" -> <<"syncComments">>
    [] action = "UpdateAndRelay" -> <<"syncBranch">>
    [] action = "CloseAndDelete" -> <<"closePullRequest", "deleteBranch">>
    [] OTHER -> <<>>

C8_RelayOnlyWhenHashesAgree ==
  \A k \in Processed :
    (HasChange(changes[k]) /\ HasPull(changes[k])) =>
      IF HashesAgree(changes[k])
      THEN CallsFor(k, {"syncComments", "syncBranch"}) = <<"syncComments">>
      ELSE CallsFor(k, {"syncComments", "syncBranch"}) = <<"syncBranch">>

\* C8 as claimed: every record with both sides present gets the relay
C8_RelayWheneverBothPresent ==
  \A k \in Processed :
    (HasChange(changes[k]) /\ HasPull(changes[k])) =>
      CallsFor(k, {"syncComments"}) = <<"syncComments">>

\* one poll handled a record whose hashes agree and one whose hashes differ
C8_Witness ==
  /\ \E k \in Processed : ClassifyRecord(changes[k]) = "NoOp"
  /\ \E k \in Processed : ClassifyRecord(changes[k]) = "UpdateAndRelay"

CloseCalls ==
  {"syncComments", "statuses", "SetReview", "closePullRequest", "deleteBranch",
   "push --delete"}

---------------------------------------------------------------------------
(* Properties of the feedback relay *)

\* The statuses of the head commit of the one pull request
Listed == statuses[Foo][New]

\* The comments on the change, and those it held before the program ran
CommentsNow == gerrit[I1].Messages
CommentsBefore(j) == SubSeq(CommentsNow, 1, Len(CommentsNow) - Len(reviews) + j - 1)

Terminal(stat) == stat.State \in {"success", "failure"}

TimesPosted(msg) == Cardinality({j \in 1..Len(reviews) : reviews[j].Message = msg})

\* The relay of the current poll has run to its end
RelayDone == pc = "dispatch" /\ todo = {} /\ I1 \in DOMAIN changes

\* C4: two successive polls over one list of terminal statuses post each
\* distinct message once in all, and never a message that a comment already on
\* the change contains.
C4_EachMessagePostedOnce ==
  /\ (arrived = 0 /\ cycle = 2 /\ Completed) =>
       \A i \in 1..Len(Listed) :
         (Listed[i].Context = TravisContext /\ Terminal(Listed[i])) =>
           TimesPosted(StatusMessage(Listed[i])) =
             IF Found(CommentsBefore(1), StatusMessage(Listed[i])) THEN 0 ELSE 1
  /\ \A j \in 1..Len(reviews) : ~Found(CommentsBefore(j), reviews[j].Message)

\* C10 (as the code has it): a comment is posted only for a listed status of
\* the Travis context in state success or failure; once such a status is
\* listed, the pass that reads it leaves its message on the change; a status
\* of another context is never relayed, whatever its state.
C10_OnlyTerminalTravisRelayed ==
  /\ \A j \in 1..Len(reviews) :
       \E i \in 1..Len(statuses[Foo][reviews[j].SHA]) :
         LET stat == statuses[Foo][reviews[j].SHA][i]
         IN  /\ stat.Context = TravisContext
             /\ Terminal(stat)
             /\ StatusMessage(stat) = reviews[j].Message
  /\ RelayDone =>
       \A i \in 1..Len(Listed) :
         (Listed[i].Context = TravisContext /\ Terminal(Listed[i])) =>
           Found(CommentsNow, StatusMessage(Listed[i]))

\* C10 as claimed: a status of whatever context, once a terminal status for it
\* is listed, is relayed by the pass that reads it
C10_EveryTerminalStatusRelayed ==
  RelayDone =>
    \A i \in 1..Len(Listed) :
      Terminal(Listed[i]) => Found(CommentsNow, StatusMessage(Listed[i]))

\* the first poll read a pending Travis status and posted nothing; its
\* terminal status arrived, and the second poll posted it
C10_Witness ==
  /\ RelayDone /\ cycle = 2 /\ arrived = 1
  /\ Len(Listed) = 2
  /\ Listed[2].Context = TravisContext /\ Listed[2].State = "pending"
  /\ Listed[1] = [Listed[2] EXCEPT !.State = "success"]
  /\ Len(reviews) = 1
  /\ \E i \in 1..Len(log) : log[i].call = "SetReview"

---------------------------------------------------------------------------
(* Properties of the review labels *)

---------------------------------------------------------------------------
(* Properties of the order of operations and of failures *)

\* poll has returned an error
Failed == pc = "failed"

\* The call at which the poll stopped, when it has returned an error from
\* the range loop
LastCall == log[Len(log)]

\* The calls syncBranch makes, itself included
SyncCalls ==
  {"syncBranch", "stat", "mkdir", "clone", "checkout master", "pull",
   "checkout", "checkout -b", "fetch", "reset", "push -f"}

\* C12: a pull request is requested for a change without pull request only
\* right after the force push of syncBranch for that change succeeded, the
\* mirror branch then being at the change's revision; when syncBranch fails,
\* at whatever call, no pull request is requested for that change.
C12_CreateOnlyAfterPush ==
  /\ \A i \in 1..Len(log) :
       log[i].call = "createPullRequest" =>
         /\ i > 1
         /\ log[i - 1] = [log[i] EXCEPT !.call = "push -f"]
         /\ CallsFor(log[i].key, {"syncBranch", "push -f", "createPullRequest"})
              = <<"syncBranch", "push -f", "createPullRequest">>
         /\ branches[log[i].repo][log[i].ref] = gerrit[log[i].ref].CurrentRevision
  /\ (Failed /\ log # <<>> /\ LastCall.call \in SyncCalls) =>
       CallsFor(LastCall.key, {"createPullRequest"}) = <<>>

\* one poll created the pull request of one change and stopped in the
\* syncBranch of another change without pull request
C12_Witness ==
  /\ Failed /\ log # <<>>
  /\ LastCall.call \in SyncCalls \ {"syncBranch"}
  /\ CaseCreate(changes[LastCall.key])
  /\ \E k \in Processed :
       /\ CaseCreate(changes[k])
       /\ CallsFor(k, {"createPullRequest"}) = <<"createPullRequest">>
       /\ OpenPulls(gerrit[k].Project, k) # {}

\* The effect of a call of the log that returned without error
InEffect(e) ==
  CASE e.call = "push -f" ->
         branches[e.repo][e.ref] = gerrit[e.ref].CurrentRevision
    [] e.call = "createPullRequest" -> OpenPulls(e.repo, e.ref) # {}
    [] e.call = "closePullRequest" -> pulls[e.repo][e.num].State = "closed"
    [] e.call = "push --delete" -> branches[e.repo][e.ref] = NoSha
    [] e.call = "SetReview" -> gerrit[e.ref].Messages # <<>>
    [] e.call = "clone" -> work[e.repo].dir = "dir"
    [] OTHER -> TRUE

\* C13: a call follows another only when that one returned without error, and
\* what it did is still in place; a poll that returned an error stopped at
\* the call that failed, has issued nothing for the records it had not yet
\* visited, and nothing happens after it.
C13_ErrorEndsThePoll ==
  /\ [](\A i \in 1..(Len(log) - 1) : InEffect(log[i]))
  /\ [](Failed =>
         /\ \A i \in 1..Len(log) :
              log[i].key \in Processed \/ log[i].key = LastCall.key
         /\ \A k \in todo : k = LastCall.key \/ CallsFor(k, Operations) = <<>>
         /\ log # <<>> => LastCall.key \in todo)
  /\ [][~Failed]_vars

\* a poll closed the pull request of one record and stopped at the deletion of
\* its branch, the pull request staying closed and a change without pull
\* request not yet visited
C13_Witness ==
  /\ Failed /\ log # <<>>
  /\ LastCall.call = "push --delete"
  /\ pulls[LastCall.repo][Deref(changes[LastCall.key].PullRequest).Number].State
       = "closed"
  /\ branches[LastCall.repo][LastCall.ref] # NoSha
  /\ \E k \in todo : k # LastCall.key /\ CaseCreate(changes[k])

\* Every open change has its branch at its revision and one open pull
\* request, in the repository of its project; no other change id has an open
\* pull request or a branch anywhere.
Converged ==
  \A id \in ChangeIds : \A repo \in RepoSet :
    IF gerrit[id].Open /\ repo = gerrit[id].Project
    THEN /\ Cardinality(OpenPulls(repo, id)) = 1
         /\ branches[repo][id] = gerrit[id].CurrentRevision
    ELSE /\ OpenPulls(repo, id) = {}
         /\ branches[repo][id] = NoSha

\* C14: whatever failed in the first poll, a later poll that meets no failure
\* and returns nil leaves the mirror converged.
C14_LaterPollConverges ==
  (cycle >= 2 /\ Completed) => Converged

---------------------------------------------------------------------------
(* Properties of run *)

\* C15: with -cron run polls once and ends with what that poll returned;
\* without, a poll that returned nil is followed by another poll and by
\* nothing else, and a poll that returned an error is followed by nothing.
C15_LoopModes ==
  /\ [](cron => cycle <= 1)
  /\ [](pc = "start" => cycle = 0 /\ ENABLED PollFetch)
  /\ []((Completed /\ ~cron /\ cycle < MaxCycles) => ENABLED PollFetch)
  /\ [][Completed => (~cron /\ cycle' = cycle + 1 /\ pc' \in {"dispatch", "failed"})]_vars
  /\ [][~Failed]_vars

\* without -cron the first poll returned nil and the second an error
C15_Witness ==
  /\ ~cron
  /\ cycle = 2
  /\ Failed

---------------------------------------------------------------------------
(* Properties of the removal of a pull request *)

DeleteCalls == {"deleteBranch", "push --delete", "branch -D"}

\* The mirror branch of the pull request of record k is where the poll found it
BranchAsFetched(k) ==
  LET pr == Deref(changes[k].PullRequest)
  IN  /\ pr.Head.SHA # NoSha
      /\ branches[AfterSlash(pr.Head.Repo)][pr.Head.Ref] = pr.Head.SHA

\* C16: deleteBranch and its git calls come only after closePullRequest for
\* the same record has closed the pull request; when closePullRequest returns
\* an error nothing of deleteBranch is issued for the record and pull request
\* and branch stay as they were; closePullRequest leaves the branch alone.
C16_DeleteOnlyAfterClose ==
  /\ \A i \in 1..Len(log) :
       log[i].call \in DeleteCalls =>
         \E j \in 1..(i - 1) :
           /\ log[j].call = "closePullRequest" /\ log[j].key = log[i].key
           /\ pulls[log[j].repo][log[j].num].State = "closed"
  /\ (Failed /\ log # <<>> /\ LastCall.call = "closePullRequest") =>
       /\ CallsFor(LastCall.key, DeleteCalls \cup {"stat", "clone", "pull"}) = <<>>
       /\ pulls[LastCall.repo][LastCall.num].State = "open"
       /\ BranchAsFetched(LastCall.key)
  /\ (Failed /\ log # <<>> /\ LastCall.call \in {"deleteBranch", "clone", "push --delete"}
        /\ CaseClose(changes[LastCall.key])) =>
       BranchAsFetched(LastCall.key)

\* closePullRequest returned an error for a pull request without change
C16_Witness ==
  /\ Failed /\ log # <<>>
  /\ LastCall.call = "closePullRequest"
  /\ CaseClose(changes[LastCall.key])
  /\ BranchAsFetched(LastCall.key)

---------------------------------------------------------------------------
(* Properties of the update of a branch *)

\* The step is the iteration of the range loop for record k, which has both
\* sides and hashes that differ
UpdateStep(k) ==
  /\ pc = "dispatch"
  /\ CaseBoth(changes[k]) /\ ~InSync(changes[k])
  /\ Len(log') > Len(log)
  /\ log'[Len(log')].key = k

\* C17: the iteration for a record with both sides whose hashes differ calls
\* syncBranch once and nothing but the calls of syncBranch; it leaves every
\* pull request, every comment and every other branch as they were, and the
\* branch of the change, when it moves, moves to the change's revision.
C17_UpdateSyncsBranchOnly ==
  [][\A k \in todo :
       UpdateStep(k) =>
         LET ci == Deref(changes[k].ChangeInfo)
             new == SubSeq(log', Len(log) + 1, Len(log'))
         IN  /\ new[1].call = "syncBranch"
             /\ \A i \in 1..Len(new) :
                  /\ new[i].key = k
                  /\ new[i].call \in SyncCalls
                  /\ i > 1 => new[i].call # "syncBranch"
             /\ pulls' = pulls
             /\ gerrit' = gerrit
             /\ reviews' = reviews
             /\ \A repo \in RepoSet, ref \in Refs :
                  branches'[repo][ref] # branches[repo][ref] =>
                    /\ repo = ci.Project /\ ref = k
                    /\ branches'[repo][ref] = ci.CurrentRevision]_vars

\* a record with both sides had its branch moved to the change's revision,
\* its pull request still open and no comment posted
C17_Witness ==
  \E k \in Processed :
    /\ ClassifyRecord(changes[k]) = "UpdateAndRelay"
    /\ CallsFor(k, Operations \cup {"push -f", "statuses"}) = <<"syncBranch", "push -f">>
    /\ branches[gerrit[k].Project][k] = gerrit[k].CurrentRevision
    /\ LET pr == Deref(changes[k].PullRequest)
       IN  pulls[AfterSlash(pr.Head.Repo)][pr.Number].State = "open"
    /\ reviews = <<>>

---------------------------------------------------------------------------
(* Properties of the join as a function of its insertions *)

\* C18: whatever the interleaving of the insertions of changes and of pull
\* requests, the map filled is the map poll fills with all changes first.
C18_AnyInterleavingSameJoin ==
  (pc = "join" /\ cis = <<>> /\ prs = <<>>) =>
    changes = Join(gerritChanges, AllPullRequests(githubRepos))

---------------------------------------------------------------------------
(* Properties of syncBranch and deleteBranch *)

AfterCheckout == {"fetch", "reset", "push -f"}

\* C19: checkout -b is issued right after a checkout of the same branch and
\* only then; a poll never ends with an error at checkout; after checkout,
\* or after a checkout -b that did not fail, syncBranch goes on with fetch;
\* a poll that ends at checkout -b has issued no fetch, reset or push for the
\* record; a syncBranch that returned nil made its calls in the order
\* checkout, (checkout -b,) fetch, reset, push -f.
C19_CheckoutFallback ==
  /\ \A i \in 1..Len(log) :
       /\ log[i].call = "checkout -b" =>
            i > 1 /\ log[i - 1] = [log[i] EXCEPT !.call = "checkout"]
       /\ (log[i].call = "checkout" /\ i < Len(log)) =>
            \/ log[i + 1] = [log[i] EXCEPT !.call = "checkout -b"]
            \/ log[i + 1] = [log[i] EXCEPT !.call = "fetch"]
       /\ (log[i].call = "checkout -b" /\ i < Len(log)) =>
            log[i + 1] = [log[i] EXCEPT !.call = "fetch"]
  /\ (Failed /\ log # <<>>) =>
       /\ LastCall.call # "checkout"
       /\ LastCall.call = "checkout -b" =>
            CallsFor(LastCall.key, AfterCheckout) = <<>>
  /\ \A k \in Processed :
       CallsFor(k, {"syncBranch"}) # <<>> =>
         CallsFor(k, AfterCheckout \cup {"checkout", "checkout -b"}) \in
           {<<"checkout", "fetch", "reset", "push -f">>,
            <<"checkout", "checkout -b", "fetch", "reset", "push -f">>}

\* the checkout of a branch the clone does not have failed, the branch was
\* created, and syncBranch fetched, reset and pushed it
C19_Witness ==
  \E k \in Processed :
    /\ CallsFor(k, AfterCheckout \cup {"checkout", "checkout -b"})
         = <<"checkout", "checkout -b", "fetch", "reset", "push -f">>
    /\ k \in work[gerrit[k].Project].br
    /\ branches[gerrit[k].Project][k] = gerrit[k].CurrentRevision

\* C20: a poll that ends at push --delete has issued no branch -D for the
\* record and the mirror branch is still there; branch -D comes right after a
\* push --delete that removed the mirror branch, and whether it removes the
\* local branch or not the poll never ends at it: the record is done.
C20_MirrorDeletionDecides ==
  /\ (Failed /\ log # <<>>) =>
       /\ LastCall.call # "branch -D"
       /\ LastCall.call = "push --delete" =>
            /\ CallsFor(LastCall.key, {"branch -D"}) = <<>>
            /\ branches[LastCall.repo][LastCall.ref] # NoSha
  /\ \A i \in 1..Len(log) :
       log[i].call = "branch -D" =>
         /\ i > 1 /\ log[i - 1] = [log[i] EXCEPT !.call = "push --delete"]
         /\ branches[log[i].repo][log[i].ref] = NoSha
         /\ log[i].key \in Processed

\* the mirror branch of a pull request without change was deleted, the local
\* branch is still in the clone after branch -D, and the record is done
C20_Witness ==
  \E k \in Processed :
    /\ CaseClose(changes[k])
    /\ CallsFor(k, {"push --delete", "branch -D"}) = <<"push --delete", "branch -D">>
    /\ branches[Home(k)][k] = NoSha
    /\ k \in work[Home(k)].br

\* C21: clone on a directory that exists never makes the poll end at the
\* checkout of master or at the pull: a poll ends at checkout master only
\* right after a fresh git clone, and never at pull.
C21_ExistingCloneToleratesGit ==
  (Failed /\ log # <<>>) =>
    /\ LastCall.call # "pull"
    /\ LastCall.call = "checkout master" =>
         Len(log) > 1 /\ log[Len(log) - 1] = [LastCall EXCEPT !.call = "clone"]

---------------------------------------------------------------------------
(* Properties of the records *)

\* C22: the pull request of a record with both sides has its head in the
\* repository <owner>/<project of the change>, so that the branch syncBranch
\* pushes for the record is the head branch of that pull request.
C22_PairedWithinTheProject ==
  \A k \in DOMAIN changes :
    CaseBoth(changes[k]) =>
      Deref(changes[k].PullRequest).Head.Repo
        = FullName(GitHubOwner, Deref(changes[k].ChangeInfo).Project)

\* What the iteration for record k leaves behind, as a function of the record
\* the poll joined (and of the statuses of its head commit)
EffectOf(k) ==
  LET c == changes[k] IN
  IF CaseCreate(c) THEN
    LET ci == Deref(c.ChangeInfo)
    IN  /\ branches[ci.Project][k] = ci.CurrentRevision
        /\ Cardinality(OpenPulls(ci.Project, k)) = 1
        /\ gerrit[k].Messages = ci.Messages
  ELSE IF CaseBoth(c) THEN
    LET ci == Deref(c.ChangeInfo)
        pr == Deref(c.PullRequest)
        repo == AfterSlash(pr.Head.Repo)
        posts == RelayLoop(statuses[repo][pr.Head.SHA], ci, 0, <<>>).posts
    IN  /\ pulls[repo][pr.Number] = [Ref |-> k, State |-> "open"]
        /\ IF InSync(c)
           THEN /\ branches[repo][k] = pr.Head.SHA
                /\ gerrit[k].Messages =
                     ci.Messages \o [i \in 1..Len(posts) |-> GerritMessage(posts[i])]
           ELSE /\ branches[ci.Project][k] = ci.CurrentRevision
                /\ gerrit[k].Messages = ci.Messages
  ELSE
    LET pr == Deref(c.PullRequest)
        repo == AfterSlash(pr.Head.Repo)
    IN  /\ pulls[repo][pr.Number] = [Ref |-> k, State |-> "closed"]
        /\ branches[repo][k] = NoSha

\* The step is an iteration of the range loop, for the record of its last call
IterationFor(k) ==
  /\ pc = "dispatch"
  /\ Len(log') > Len(log)
  /\ log'[Len(log')].key = k

\* The iteration for record k touches no branch, no pull request and no
\* change but those named k, and not the records joined
TouchesOnly(k) ==
  /\ changes' = changes
  /\ statuses' = statuses
  /\ \A repo \in RepoSet :
       /\ \A ref \in Refs \ {k} : branches'[repo][ref] = branches[repo][ref]
       /\ Len(pulls'[repo]) >= Len(pulls[repo])
       /\ \A n \in 1..Len(pulls'[repo]) :
            IF n <= Len(pulls[repo]) /\ pulls[repo][n].Ref # k
            THEN pulls'[repo][n] = pulls[repo][n]
            ELSE pulls'[repo][n].Ref = k
  /\ \A id \in ChangeIds \ {k} : gerrit'[id] = gerrit[id]

\* C23: the iteration for a record touches only the branches, pull requests
\* and comments of its own identifier, and what it leaves there once it has
\* ended without error is a function of the record as joined; so the mirror
\* and the comments after a poll that returned nil are the same for every
\* order of the records (up to the numbers of the pull requests created).
C23_OrderOfRecordsIrrelevant ==
  /\ [](\A k \in Processed : EffectOf(k))
  /\ [][\A k \in todo : IterationFor(k) => TouchesOnly(k)]_vars

\* Position in the log of the first call made for record k
FirstCall(k) == CHOOSE i \in 1..Len(log) : log[i].key = k /\ \A j \in 1..(i - 1) : log[j].key # k

\* a poll that returned nil synced two changes of one project in the one
\* clone of that project, the second change first
C23_Witness ==
  /\ Completed
  /\ Processed = {I1, I2}
  /\ gerrit[I1].Project = gerrit[I2].Project
  /\ \A k \in {I1, I2} : CallsFor(k, {"syncBranch", "push -f"}) = <<"syncBranch", "push -f">>
  /\ work[gerrit[I1].Project].br = {I1, I2}
  /\ FirstCall(I2) < FirstCall(I1)

---------------------------------------------------------------------------
(* Properties of the calls of the feedback relay *)

\* C24: syncComments is called only for a record whose change is present, and
\* the program never stops in it on a nil change.
C24_RelayHasItsChange ==
  /\ pc # "panicked"
  /\ \A i \in 1..Len(log) :
       log[i].call = "syncComments" => HasChange(changes[log[i].key])

\* C25: every review is posted against the revision that is the commit whose
\* statuses were read: the head of the pull request is the current revision
\* of the change, and the status relayed is one recorded on that commit.
C25_RevisionIsTheCommitRead ==
  \A j \in 1..Len(reviews) :
    /\ reviews[j].Revision = reviews[j].SHA
    /\ reviews[j].Revision = gerrit[reviews[j].ChangeID].CurrentRevision
    /\ \E repo \in RepoSet : \E i \in 1..Len(statuses[repo][reviews[j].Revision]) :
         StatusMessage(statuses[repo][reviews[j].Revision][i]) = reviews[j].Message

\* one poll relayed a status of a pull request in sync and pushed the branch
\* of another whose head is not the change's revision
C25_Witness ==
  /\ Len(reviews) = 1
  /\ reviews[1].ChangeID \in Processed
  /\ \E k \in Processed :
       /\ ClassifyRecord(changes[k]) = "UpdateAndRelay"
       /\ statuses[AfterSlash(Deref(changes[k].PullRequest).Head.Repo)]
                  [Deref(changes[k].PullRequest).Head.SHA] # <<>>
       /\ gerrit[k].Messages = <<>>

====
